---- MODULE Spec2Model ----
(***************************************************************************)
(* Model of the Angular dependency analyzer:                               *)
(*   NpmRegistryService        (src/src/app/components/services/           *)
(*                              npm-registry.ts)                           *)
(*   DependencyAnalyzerService (src/unnamed/part_001)                      *)
(*   App component             (src/src/app/app.ts)                        *)
(*                                                                         *)
(* JavaScript strings are sequences of one-character strings, so that      *)
(* split, parseInt, Number, replace, includes and match are computed on    *)
(* the characters as the runtime computes them.                            *)
(***************************************************************************)
EXTENDS Integers, Sequences, FiniteSets, TLC

VARIABLES
    inputJson,        \* App.inputJson        (editor text)
    outputJson,       \* App.outputJson       (serialised updated manifest)
    selectedVersion,  \* App.selectedVersion  (target Angular major, a string)
    isAnalyzing,      \* App.isAnalyzing
    analysisResult,   \* App.analysisResult   (Null or an AnalysisResult)
    inflight,         \* forkJoin subscriptions of analyze() not yet completed
    analyzeCalls,     \* number of calls of DependencyAnalyzerService.analyze
    emitted,          \* number of results delivered to the subscriber of analyze()
    delivery,         \* the fetches behind the result analysisResult holds
    lastOp,           \* "onAnalyze" when the last step ran onAnalyze, else "other"
    call,             \* unit harness: the arguments of the function under study
    ret               \* unit harness: its result, <<>> before the call

vars == <<inputJson, outputJson, selectedVersion, isAnalyzing, analysisResult,
          inflight, analyzeCalls, emitted, delivery, lastOp, call, ret>>

appVars == <<inputJson, outputJson, selectedVersion, isAnalyzing, analysisResult,
             inflight, analyzeCalls, emitted, delivery, lastOp>>

(***************************************************************************)
(* JavaScript values                                                       *)
(***************************************************************************)
\* NaN is the empty tuple, a number n is <<n>>: a parse result is one or the other.
NaN == <<>>
Num(n) == <<n>>

\* x || 0 on a number: NaN, 0 and undefined (an index past the end) give 0.
OrZero(x) == IF x = NaN THEN 0 ELSE x[1]

\* parts[i] || 0 with the 0-based index i of the source
PartOrZero(parts, i) == IF i + 1 <= Len(parts) THEN OrZero(parts[i + 1]) ELSE 0

Max(a, b) == IF a >= b THEN a ELSE b

Digits == {"0", "1", "2", "3", "4", "5", "6", "7", "8", "9"}

DigitVal(c) ==
    CASE c = "0" -> 0 [] c = "1" -> 1 [] c = "2" -> 2 [] c = "3" -> 3
      [] c = "4" -> 4 [] c = "5" -> 5 [] c = "6" -> 6 [] c = "7" -> 7
      [] c = "8" -> 8 [] c = "9" -> 9

WhiteSpace == {" "}

\* value of a string of decimal digits
RECURSIVE DecVal(_)
DecVal(s) == IF s = <<>> THEN 0
             ELSE 10 * DecVal(SubSeq(s, 1, Len(s) - 1)) + DigitVal(s[Len(s)])

\* length of the longest prefix of s made of digits
RECURSIVE DigitRunLen(_)
DigitRunLen(s) == IF s = <<>> \/ s[1] \notin Digits THEN 0
                  ELSE 1 + DigitRunLen(Tail(s))

RECURSIVE TrimStart(_)
TrimStart(s) == IF s # <<>> /\ s[1] \in WhiteSpace THEN TrimStart(Tail(s)) ELSE s

RECURSIVE TrimEnd(_)
TrimEnd(s) == IF s # <<>> /\ s[Len(s)] \in WhiteSpace
              THEN TrimEnd(SubSeq(s, 1, Len(s) - 1)) ELSE s

\* String.prototype.trim
Trim(s) == TrimEnd(TrimStart(s))

\* parseInt(s, 10): leading white space, an optional sign, the leading digits;
\* NaN when no digit follows.
ParseInt(s) ==
    LET t == TrimStart(s)
        signed == t # <<>> /\ t[1] \in {"+", "-"}
        u == IF signed THEN Tail(t) ELSE t
        n == DigitRunLen(u)
        mag == DecVal(SubSeq(u, 1, n))
    IN  IF n = 0 THEN NaN
        ELSE IF signed /\ t[1] = "-" THEN Num(0 - mag) ELSE Num(mag)

\* Number(s): the whole trimmed string must be a numeral; "" is 0.
\* (decimal integers only: the strings of this model hold no exponent,
\* hexadecimal or Infinity literal, and '.' never survives the split)
JSNumber(s) ==
    LET t == Trim(s)
        signed == t # <<>> /\ t[1] \in {"+", "-"}
        u == IF signed THEN Tail(t) ELSE t
        mag == DecVal(u)
    IN  IF t = <<>> THEN Num(0)
        ELSE IF u = <<>> \/ DigitRunLen(u) # Len(u) THEN NaN
        ELSE IF signed /\ t[1] = "-" THEN Num(0 - mag) ELSE Num(mag)

\* s.startsWith(p) at position i (1-based)
MatchesAt(s, p, i) == /\ i + Len(p) - 1 <= Len(s)
                      /\ SubSeq(s, i, i + Len(p) - 1) = p

StartsWith(s, p) == MatchesAt(s, p, 1)

\* s.includes(p)
Includes(s, p) == \E i \in 1..(Len(s) + 1) : MatchesAt(s, p, i)

\* s.split(sep) for a non-empty separator: leftmost, non-overlapping
RECURSIVE SplitFrom(_, _, _, _)
SplitFrom(s, sep, i, acc) ==
    IF i > Len(s) THEN <<acc>>
    ELSE IF MatchesAt(s, sep, i)
         THEN <<acc>> \o SplitFrom(s, sep, i + Len(sep), <<>>)
         ELSE SplitFrom(s, sep, i + 1, Append(acc, s[i]))

Split(s, sep) == SplitFrom(s, sep, 1, <<>>)

\* Array.prototype.map
MapSeq(F(_), s) == [i \in 1..Len(s) |-> F(s[i])]

\* Array.prototype.filter
RECURSIVE FilterSeq(_, _)
FilterSeq(P(_), s) ==
    IF s = <<>> THEN <<>>
    ELSE IF P(s[1]) THEN <<s[1]>> \o FilterSeq(P, Tail(s))
    ELSE FilterSeq(P, Tail(s))

UpperCase == {"A", "B", "C", "E", "N", "R", "T", "X"}

LowerOf(c) ==
    CASE c = "A" -> "a" [] c = "B" -> "b" [] c = "C" -> "c" [] c = "E" -> "e"
      [] c = "N" -> "n" [] c = "R" -> "r" [] c = "T" -> "t" [] c = "X" -> "x"

\* String.prototype.toLowerCase on the letters of this model
ToLowerCase(s) == [i \in 1..Len(s) |-> IF s[i] \in UpperCase THEN LowerOf(s[i]) ELSE s[i]]

(***************************************************************************)
(* Version comparison, both services                                       *)
(***************************************************************************)
\* the for loop of compareVersions from index i on
RECURSIVE CompareParts(_, _, _)
CompareParts(parts1, parts2, i) ==
    IF i >= Max(Len(parts1), Len(parts2)) THEN 0
    ELSE LET p1 == PartOrZero(parts1, i)
             p2 == PartOrZero(parts2, i)
         IN  IF p1 < p2 THEN 0 - 1
             ELSE IF p1 > p2 THEN 1
             ELSE CompareParts(parts1, parts2, i + 1)

\* a comparison that answers -1 for equal components
RECURSIVE ComparePartsNoEqual(_, _, _)
ComparePartsNoEqual(parts1, parts2, i) ==
    IF i >= Max(Len(parts1), Len(parts2)) THEN 0
    ELSE LET p1 == PartOrZero(parts1, i)
             p2 == PartOrZero(parts2, i)
         IN  IF p1 <= p2 THEN 0 - 1
             ELSE IF p1 > p2 THEN 1
             ELSE ComparePartsNoEqual(parts1, parts2, i + 1)

Registry_compareVersions_noEqual(v1, v2) ==
    ComparePartsNoEqual(MapSeq(ParseInt, Split(v1, <<".">>)),
                        MapSeq(ParseInt, Split(v2, <<".">>)), 0)

\* a comparison that stops at the end of the shorter list of components
RECURSIVE ComparePartsShorter(_, _, _)
ComparePartsShorter(parts1, parts2, i) ==
    IF i >= (IF Len(parts1) < Len(parts2) THEN Len(parts1) ELSE Len(parts2)) THEN 0
    ELSE LET p1 == PartOrZero(parts1, i)
             p2 == PartOrZero(parts2, i)
         IN  IF p1 < p2 THEN 0 - 1
             ELSE IF p1 > p2 THEN 1
             ELSE ComparePartsShorter(parts1, parts2, i + 1)

Registry_compareVersions_shorter(v1, v2) ==
    ComparePartsShorter(MapSeq(ParseInt, Split(v1, <<".">>)),
                        MapSeq(ParseInt, Split(v2, <<".">>)), 0)

\* NpmRegistryService.compareVersions
Registry_compareVersions(v1, v2) ==
    CompareParts(MapSeq(ParseInt, Split(v1, <<".">>)),
                 MapSeq(ParseInt, Split(v2, <<".">>)), 0)

\* DependencyAnalyzerService.compareVersions
Analyzer_compareVersions(v1, v2) ==
    CompareParts(MapSeq(JSNumber, Split(v1, <<".">>)),
                 MapSeq(JSNumber, Split(v2, <<".">>)), 0)

\* cleanVersion of both services: version.replace(/[\^~>=<]/g, '')
RangeOperators == {"^", "~", ">", "=", "<"}

IsNotRangeOperator(c) == c \notin RangeOperators

cleanVersion(version) == FilterSeq(IsNotRangeOperator, version)

(***************************************************************************)
(* NpmRegistryService                                                      *)
(***************************************************************************)
\* null / undefined, and a present value v: an optional is <<>> or <<v>>
Null == <<>>
Some(v) == <<v>>

\* !x for an optional string: undefined, null and '' are falsy
Falsy(x) == x = Null \/ x = Some(<<>>)

\* a === b and a > b, a >= b on numbers: false as soon as one side is NaN
StrictEq(a, b) == a # NaN /\ b # NaN /\ a[1] = b[1]
NumGt(a, b) == a # NaN /\ b # NaN /\ a[1] > b[1]
NumGe(a, b) == a # NaN /\ b # NaN /\ a[1] >= b[1]

preReleasePatterns ==
    << <<"c", "a", "n", "a", "r", "y">>, <<"b", "e", "t", "a">>, <<"r", "c">>,
       <<"a", "l", "p", "h", "a">>, <<"n", "e", "x", "t">>, <<"d", "e", "v">>,
       <<"s", "n", "a", "p", "s", "h", "o", "t">>,
       <<"p", "r", "e", "v", "i", "e", "w">>,
       <<"e", "x", "p", "e", "r", "i", "m", "e", "n", "t", "a", "l">> >>

\* NpmRegistryService.isPreReleaseVersion
isPreReleaseVersion(version) ==
    LET lowerVersion == ToLowerCase(version)
    IN  \E k \in 1..Len(preReleasePatterns) : Includes(lowerVersion, preReleasePatterns[k])

IsStableVersion(v) == ~isPreReleaseVersion(v)

\* insertion of x into a list sorted by (a, b) => compareVersions(b, a), behind
\* every element it does not strictly precede (Array.prototype.sort is stable)
RECURSIVE InsertDescending(_, _)
InsertDescending(sorted, x) ==
    IF sorted = <<>> THEN <<x>>
    ELSE IF Registry_compareVersions(x, sorted[1]) > 0 THEN <<x>> \o sorted
    ELSE <<sorted[1]>> \o InsertDescending(Tail(sorted), x)

RECURSIVE SortFrom(_, _)
SortFrom(sorted, rest) ==
    IF rest = <<>> THEN sorted
    ELSE SortFrom(InsertDescending(sorted, rest[1]), Tail(rest))

\* a sort that orders ascending
RECURSIVE InsertAscending(_, _)
InsertAscending(sorted, x) ==
    IF sorted = <<>> THEN <<x>>
    ELSE IF Registry_compareVersions(x, sorted[1]) < 0 THEN <<x>> \o sorted
    ELSE <<sorted[1]>> \o InsertAscending(Tail(sorted), x)

RECURSIVE SortAscFrom(_, _)
SortAscFrom(sorted, rest) ==
    IF rest = <<>> THEN sorted
    ELSE SortAscFrom(InsertAscending(sorted, rest[1]), Tail(rest))

sortVersionsAscending(versions) == SortAscFrom(<<>>, versions)

\* NpmRegistryService.sortVersionsDescending
sortVersionsDescending(versions) == SortFrom(<<>>, versions)

\* pattern.match(/(\d+)/): the first run of digits, Null when there is none
RECURSIVE FirstDigitRun(_)
FirstDigitRun(s) ==
    IF s = <<>> THEN Null
    ELSE IF s[1] \in Digits THEN Some(SubSeq(s, 1, DigitRunLen(s)))
    ELSE FirstDigitRun(Tail(s))

\* the body of the for loop of versionSatisfiesPeerDep: TRUE when it returns true
PatternSatisfied(targetMajor, pattern) ==
    LET match == FirstDigitRun(pattern)
        constraintMajor == ParseInt(match[1])
    IN  /\ match # Null
        /\ IF Includes(pattern, <<">", "=">>) THEN NumGe(targetMajor, constraintMajor)
           ELSE IF Includes(pattern, <<"^">>) THEN StrictEq(targetMajor, constraintMajor)
           ELSE IF Includes(pattern, <<"~">>) THEN StrictEq(targetMajor, constraintMajor)
           ELSE FALSE

\* an evaluator that reads only the first alternative
versionSatisfiesPeerDep_firstOnly(targetMajor, peerDepConstraint) ==
    LET patterns == MapSeq(Trim, Split(peerDepConstraint, <<"|", "|">>))
    IN  PatternSatisfied(targetMajor, patterns[1])

\* NpmRegistryService.versionSatisfiesPeerDep
versionSatisfiesPeerDep(targetMajor, peerDepConstraint) ==
    LET patterns == MapSeq(Trim, Split(peerDepConstraint, <<"|", "|">>))
    IN  \E k \in 1..Len(patterns) : PatternSatisfied(targetMajor, patterns[k])

\* Object.keys(info.versions)
VersionKeys(info) == [i \in 1..Len(info.versions) |-> info.versions[i].version]

\* the forEach callback of findVersionsCompatibleWithAngular: TRUE when it pushes
IsCompatibleEntry(entry, targetMajor, includePreRelease) ==
    IF ~includePreRelease /\ isPreReleaseVersion(entry.version) THEN FALSE
    ELSE IF entry.peerDependencies = Null THEN TRUE
    ELSE IF Falsy(entry.peerDependencies[1].angularCore) THEN TRUE
    ELSE versionSatisfiesPeerDep(targetMajor, entry.peerDependencies[1].angularCore[1])

\* a filter that admits pre-releases whatever the current version is
findVersionsCompatibleWithAngular_allPre(info, targetAngularVersion, includePreRelease) ==
    LET targetMajor == ParseInt(targetAngularVersion)
        Keep(entry) == IsCompatibleEntry(entry, targetMajor, TRUE)
        kept == FilterSeq(Keep, info.versions)
    IN  [i \in 1..Len(kept) |-> kept[i].version]

\* NpmRegistryService.findVersionsCompatibleWithAngular
findVersionsCompatibleWithAngular(info, targetAngularVersion, includePreRelease) ==
    LET targetMajor == ParseInt(targetAngularVersion)
        Keep(entry) == IsCompatibleEntry(entry, targetMajor, includePreRelease)
        kept == FilterSeq(Keep, info.versions)
    IN  [i \in 1..Len(kept) |-> kept[i].version]

\* a resolver that takes the lowest version of the target major
findBestAngularVersion_lowest(versions, targetAngularVersion, currentVersion) ==
    LET targetMajor == ParseInt(targetAngularVersion)
        currentMajor == ParseInt(Split(currentVersion, <<".">>)[1])
        HasTargetMajor(v) == StrictEq(ParseInt(Split(v, <<".">>)[1]), targetMajor)
        allTarget == FilterSeq(HasTargetMajor, versions)
        stableVersions == FilterSeq(IsStableVersion, allTarget)
        targetMajorVersions ==
            IF ~isPreReleaseVersion(currentVersion) /\ Len(stableVersions) > 0
            THEN stableVersions ELSE allTarget
    IN  IF Len(targetMajorVersions) > 0
        THEN sortVersionsAscending(targetMajorVersions)[1]
        ELSE IF NumGt(currentMajor, targetMajor) THEN currentVersion
        ELSE targetAngularVersion \o <<".", "0", ".", "0">>

\* a resolver that does not narrow the target major's versions to the stable ones
findBestAngularVersion_anyRelease(versions, targetAngularVersion, currentVersion) ==
    LET targetMajor == ParseInt(targetAngularVersion)
        currentMajor == ParseInt(Split(currentVersion, <<".">>)[1])
        HasTargetMajor(v) == StrictEq(ParseInt(Split(v, <<".">>)[1]), targetMajor)
        targetMajorVersions == FilterSeq(HasTargetMajor, versions)
    IN  IF Len(targetMajorVersions) > 0
        THEN sortVersionsDescending(targetMajorVersions)[1]
        ELSE IF NumGt(currentMajor, targetMajor) THEN currentVersion
        ELSE targetAngularVersion \o <<".", "0", ".", "0">>

\* NpmRegistryService.findBestAngularVersion
findBestAngularVersion(versions, targetAngularVersion, currentVersion) ==
    LET targetMajor == ParseInt(targetAngularVersion)
        currentMajor == ParseInt(Split(currentVersion, <<".">>)[1])
        isCurrentPreRelease == isPreReleaseVersion(currentVersion)
        HasTargetMajor(v) == StrictEq(ParseInt(Split(v, <<".">>)[1]), targetMajor)
        allTarget == FilterSeq(HasTargetMajor, versions)
        stableVersions == FilterSeq(IsStableVersion, allTarget)
        targetMajorVersions ==
            IF ~isCurrentPreRelease /\ Len(stableVersions) > 0
            THEN stableVersions ELSE allTarget
    IN  IF Len(targetMajorVersions) > 0
        THEN sortVersionsDescending(targetMajorVersions)[1]
        ELSE IF NumGt(currentMajor, targetMajor) THEN currentVersion
        ELSE targetAngularVersion \o <<".", "0", ".", "0">>

\* the routing test of getBestVersion, and DependencyAnalyzerService.isAngularPackage
isAngularPackage(name) ==
    /\ StartsWith(name, <<"@", "a", "n", "g", "u", "l", "a", "r", "/">>)
    /\ ~Includes(name, <<"m", "a", "t", "e", "r", "i", "a", "l">>)
    /\ ~Includes(name, <<"c", "d", "k">>)

\* the first element of sorted that does not order below cleanCurrent, or Null
RECURSIVE FirstNotBelow(_, _)
FirstNotBelow(sorted, cleanCurrent) ==
    IF sorted = <<>> THEN Null
    ELSE IF Registry_compareVersions(sorted[1], cleanCurrent) >= 0 THEN Some(sorted[1])
    ELSE FirstNotBelow(Tail(sorted), cleanCurrent)

\* lines 91-103 of getBestVersion: the dist-tag fallback
LatestFallback(info, cleanCurrent, isCurrentPreRelease) ==
    LET tagged == IF Falsy(info.latest) THEN cleanCurrent ELSE info.latest[1]
        stableVersions == FilterSeq(IsStableVersion, VersionKeys(info))
        latest == IF ~isCurrentPreRelease /\ isPreReleaseVersion(tagged)
                     /\ Len(stableVersions) > 0
                  THEN sortVersionsDescending(stableVersions)[1]
                  ELSE tagged
    IN  IF Registry_compareVersions(latest, cleanCurrent) >= 0 THEN latest ELSE cleanCurrent

\* the ecosystem branch of getBestVersion, lines 78-103
EcosystemVersion(info, targetAngularVersion, cleanCurrent) ==
    LET isCurrentPreRelease == isPreReleaseVersion(cleanCurrent)
        compatibleVersions ==
            findVersionsCompatibleWithAngular(info, targetAngularVersion, isCurrentPreRelease)
        found == FirstNotBelow(sortVersionsDescending(compatibleVersions), cleanCurrent)
    IN  IF found # Null THEN found[1]
        ELSE LatestFallback(info, cleanCurrent, isCurrentPreRelease)

\* NpmRegistryService.getBestVersion applied to the value getPackageInfo emitted
\* (Null after a failed request): Null, or Some(version)
getBestVersion(packageName, targetAngularVersion, currentVersion, fetched) ==
    IF fetched = Null THEN Null
    ELSE LET info == fetched[1]
             cleanCurrent == cleanVersion(currentVersion)
         IN  IF isAngularPackage(packageName)
             THEN Some(findBestAngularVersion(VersionKeys(info), targetAngularVersion,
                                              cleanCurrent))
             ELSE Some(EcosystemVersion(info, targetAngularVersion, cleanCurrent))

(***************************************************************************)
(* Strings of the bounded checks                                           *)
(***************************************************************************)
v17_0_0 == <<"1", "7", ".", "0", ".", "0">>
v9_0_0 == <<"9", ".", "0", ".", "0">>
v1_2 == <<"1", ".", "2">>
v1_2_0 == <<"1", ".", "2", ".", "0">>
v16_2_0 == <<"1", "6", ".", "2", ".", "0">>
v17_1_0 == <<"1", "7", ".", "1", ".", "0">>
v17_1_0_next == <<"1", "7", ".", "1", ".", "0", "-", "n", "e", "x", "t">>
v17_0_1_next == <<"1", "7", ".", "0", ".", "1", "-", "n", "e", "x", "t">>
v17_1_0_rc_1 == <<"1", "7", ".", "1", ".", "0", "-", "r", "c", ".", "1">>
v18_0_0_next_0 == <<"1", "8", ".", "0", ".", "0", "-", "n", "e", "x", "t", ".", "0">>
v18_0_0 == <<"1", "8", ".", "0", ".", "0">>
v17_2_0 == <<"1", "7", ".", "2", ".", "0">>
v2_0_0_Beta_1 == <<"2", ".", "0", ".", "0", "-", "B", "e", "t", "a", ".", "1">>
v1_0_0 == <<"1", ".", "0", ".", "0">>
v17_0_0_next_0 == <<"1", "7", ".", "0", ".", "0", "-", "n", "e", "x", "t", ".", "0">>
emptyString == <<>>

peer_17_or_18 == <<"^", "1", "7", ".", "0", ".", "0", " ", "|", "|", " ", "^", "1", "8", ".", "0", ".", "0">>
peer_ge16 == <<">", "=", "1", "6", ".", "0", ".", "0">>
peer_caret17 == <<"^", "1", "7", ".", "0", ".", "0">>
peer_tilde17 == <<"~", "1", "7", ".", "1", ".", "0">>
peer_bare17 == <<"1", "7", ".", "0", ".", "0">>
peer_star == <<"*">>
peer_ge16_lt19 == <<">", "=", "1", "6", ".", "0", ".", "0", " ", "<", "1", "9", ".", "0", ".", "0">>
peer_16_or_17_tight == <<"^", "1", "6", ".", "0", ".", "0", "|", "|", "^", "1", "7", ".", "0", ".", "0">>
peer_ge_17_spaced == <<">", "=", " ", "1", "7">>
peer_16_or_ge18 == <<"^", "1", "6", " ", "|", "|", " ", ">", "=", "1", "8">>
peer_x_or_17 == <<"x", " ", "|", "|", " ", "^", "1", "7", ".", "0", ".", "0">>
peer_bare17_or_18 == <<"1", "7", ".", "x", " ", "|", "|", " ", "^", "1", "8", ".", "0", ".", "0">>
peer_gt15_or_tilde16 == <<">", "1", "5", " ", "|", "|", " ", "~", "1", "6", ".", "0", ".", "0">>
peer_caret18 == <<"^", "1", "8", ".", "0", ".", "0">>

pkg_angular_core == <<"@", "a", "n", "g", "u", "l", "a", "r", "/", "c", "o", "r", "e">>
pkg_angular_material == <<"@", "a", "n", "g", "u", "l", "a", "r", "/", "m", "a", "t", "e", "r", "i", "a", "l">>
pkg_rxjs == <<"r", "x", "j", "s">>
pkg_ngx_toastr == <<"n", "g", "x", "-", "t", "o", "a", "s", "t", "r">>

dep_caret_16_2_0 == <<"^", "1", "6", ".", "2", ".", "0">>
dep_caret_17_2_0 == <<"^", "1", "7", ".", "2", ".", "0">>
dep_tilde_18_0_0 == <<"~", "1", "8", ".", "0", ".", "0">>
dep_caret_19_0_0 == <<"^", "1", "9", ".", "0", ".", "0">>
dep_caret_1_0_0 == <<"^", "1", ".", "0", ".", "0">>

\* the strings the comparators are tried on
CompareStringPool ==
    << v17_0_0, v9_0_0, v1_2, v1_2_0, v17_1_0, v17_1_0_next, v17_0_1_next,
       v17_1_0_rc_1, v18_0_0_next_0, emptyString, v2_0_0_Beta_1, v16_2_0,
       v17_2_0, v1_0_0, v18_0_0 >>

NumCompareStrings == 12

CompareStrings ==
    {CompareStringPool[i] : i \in 1..(IF NumCompareStrings < Len(CompareStringPool)
                                      THEN NumCompareStrings ELSE Len(CompareStringPool))}

\* the peer constraints the evaluator is tried on
PeerConstraints ==
    { peer_17_or_18, peer_ge16, peer_caret17, peer_tilde17, peer_bare17, peer_star,
      peer_ge16_lt19, peer_16_or_17_tight, peer_ge_17_spaced, peer_16_or_ge18,
      peer_x_or_17, peer_bare17_or_18, peer_gt15_or_tilde16, peer_caret18, emptyString }

MinTargetMajor == 15
MaxTargetMajor == 19

(***************************************************************************)
(* The App component in its constructed state (app.ts lines 20-24)         *)
(***************************************************************************)
BlankText == [kind |-> "blank"]
target17 == <<"1", "7">>

AppInit ==
    /\ inputJson = BlankText
    /\ outputJson = BlankText
    /\ selectedVersion = target17
    /\ isAnalyzing = FALSE
    /\ analysisResult = Null
    /\ inflight = <<>>
    /\ analyzeCalls = 0
    /\ emitted = 0
    /\ delivery = Null
    /\ lastOp = "other"

(***************************************************************************)
(* compareVersions of both services on every pair of strings               *)
(***************************************************************************)
InitCompare ==
    /\ AppInit
    /\ call \in [a : CompareStrings, b : CompareStrings]
    /\ ret = <<>>

\* the results of one comparator on a, b: both orders, a with itself, a with a + '.0'
CompareResults(Cmp(_, _), a, b) ==
    [ab |-> Cmp(a, b), ba |-> Cmp(b, a), aa |-> Cmp(a, a),
     padded |-> Cmp(a, a \o <<".", "0">>)]

CallCompareVersions ==
    /\ ret = <<>>
    /\ ret' = Some([registry |-> CompareResults(Registry_compareVersions, call.a, call.b),
                    analyzer |-> CompareResults(Analyzer_compareVersions, call.a, call.b)])
    /\ UNCHANGED <<call, appVars>>

NextCompare == CallCompareVersions

SpecCompare == InitCompare /\ [][NextCompare]_vars

\* C6: both comparators are antisymmetric (compare(a,b) = -compare(b,a)),
\* reflexive (compare(a,a) = 0) and pad a missing component with 0
\* (compare(a, a + '.0') = 0), for every pair of version strings.
CompareIsAntisymmetricReflexivePadded ==
    ret # <<>> =>
        \A r \in {ret[1].registry, ret[1].analyzer} :
            /\ r.ab \in {0 - 1, 0, 1}
            /\ r.ab = 0 - r.ba
            /\ r.aa = 0
            /\ r.padded = 0

\* the comparators have ordered "17.0.0" above "9.0.0", and "1.2" equal to "1.2.0"
CompareWitness ==
    /\ ret # <<>>
    /\ call.a = v17_0_0 /\ call.b = v9_0_0
    /\ ret[1].registry.ab = 1 /\ ret[1].registry.ba = 0 - 1
    /\ ret[1].analyzer.ab = 1 /\ ret[1].analyzer.ba = 0 - 1
    /\ Registry_compareVersions(v1_2, v1_2_0) = 0
    /\ Analyzer_compareVersions(v1_2, v1_2_0) = 0

\* C14: the registry service's compareVersions (components read by parseInt) and
\* the analyzer service's compareVersions (components read by Number) return the
\* same result for all version strings a and b, in both orders.
ComparatorsAgree ==
    ret # <<>> =>
        /\ ret[1].registry.ab = ret[1].analyzer.ab
        /\ ret[1].registry.ba = ret[1].analyzer.ba

(***************************************************************************)
(* compareVersions on a version and the same version with a suffix         *)
(***************************************************************************)
v17_0_1 == <<"1", "7", ".", "0", ".", "1">>
v19_1_3 == <<"1", "9", ".", "1", ".", "3">>

NumericVersions ==
    {v17_0_0, v9_0_0, v1_2, v1_2_0, v16_2_0, v17_1_0, v18_0_0, v17_2_0, v1_0_0,
     v17_0_1, v19_1_3, <<"1", "7">>}

suffix_next == <<"-", "n", "e", "x", "t">>
suffix_rc_1 == <<"-", "r", "c", ".", "1">>
suffix_next_3 == <<"-", "n", "e", "x", "t", ".", "3">>
suffix_next_0 == <<"-", "n", "e", "x", "t", ".", "0">>
suffix_beta == <<"-", "b", "e", "t", "a">>
suffix_rc_0_2 == <<"-", "r", "c", ".", "0", ".", "2">>
suffix_alpha_x == <<"-", "a", "l", "p", "h", "a", ".", "x">>
suffix_dev_07 == <<"-", "d", "e", "v", ".", "0", "7">>
suffix_canary_sha == <<"-", "c", "a", "n", "a", "r", "y", ".", "a", "1">>

PreReleaseSuffixes ==
    {suffix_next, suffix_rc_1, suffix_next_3, suffix_next_0, suffix_beta,
     suffix_rc_0_2, suffix_alpha_x, suffix_dev_07, suffix_canary_sha}

InitSuffix ==
    /\ AppInit
    /\ call \in [v : NumericVersions, s : PreReleaseSuffixes]
    /\ ret = <<>>

\* compareVersions(v + s, v) of the registry service
CallCompareSuffixed ==
    /\ ret = <<>>
    /\ ret' = Some(Registry_compareVersions(call.v \o call.s, call.v))
    /\ UNCHANGED <<call, appVars>>

NextSuffix == CallCompareSuffixed

SpecSuffix == InitSuffix /\ [][NextSuffix]_vars

\* C13 as stated: for every numeric version v and every pre-release suffix s,
\* compare(v + s, v) = 0.
SuffixIgnoredAsStated == ret # <<>> => ret[1] = 0

\* the dot-separated pieces of a suffix after its first piece: the components
\* the suffix appends to the version
AppendedComponents(s) == Tail(Split(s, <<".">>))

\* some appended component begins with digits of nonzero value
AppendsNonZero(s) ==
    \E k \in 1..Len(AppendedComponents(s)) :
        LET piece == AppendedComponents(s)[k]
            n == DigitRunLen(piece)
        IN  n > 0 /\ DecVal(SubSeq(piece, 1, n)) > 0

\* C13 amended: compare(v + s, v) = 0 when the suffix appends no dot-separated
\* component that begins with a nonzero number ('-next', '-beta', '-next.0',
\* '-alpha.x'); a suffix that appends one ('-rc.1', '-next.3', '-rc.0.2')
\* orders the pre-release above its release: compare(v + s, v) = 1.
SuffixTextIgnored ==
    ret # <<>> => ret[1] = (IF AppendsNonZero(call.s) THEN 1 ELSE 0)

\* '17.1.0-rc.1' was ordered above '17.1.0'
SuffixWitness ==
    /\ ret # <<>>
    /\ call.v = v17_1_0 /\ call.s = suffix_rc_1
    /\ ret[1] = 1

(***************************************************************************)
(* versionSatisfiesPeerDep on every target major and constraint            *)
(***************************************************************************)
InitPeer ==
    /\ AppInit
    /\ call \in [targetMajor : MinTargetMajor..MaxTargetMajor, constraint : PeerConstraints]
    /\ ret = <<>>

CallVersionSatisfiesPeerDep ==
    /\ ret = <<>>
    /\ ret' = Some(versionSatisfiesPeerDep(Num(call.targetMajor), call.constraint))
    /\ UNCHANGED <<call, appVars>>

NextPeer == CallVersionSatisfiesPeerDep

SpecPeer == InitPeer /\ [][NextPeer]_vars

\* the '||'-separated alternatives of a constraint, trimmed: the pieces between
\* two separators (or an end of the string) that hold no separator
PeerAlternatives(c) ==
    LET bar == <<"|", "|">>
        StartsPiece(i) == i = 1 \/ (i >= 3 /\ MatchesAt(c, bar, i - 2))
        EndsPiece(j) == j = Len(c) \/ MatchesAt(c, bar, j + 1)
    IN  { Trim(SubSeq(c, i, j)) : <<i, j>> \in
            { p \in (1..(Len(c) + 1)) \X (0..Len(c)) :
                /\ p[2] >= p[1] - 1
                /\ StartsPiece(p[1]) /\ EndsPiece(p[2])
                /\ ~Includes(SubSeq(c, p[1], p[2]), bar) } }

\* the number written by the first run of digits of alt is M
FirstDigitRunIs(alt, M) ==
    \E i \in 1..Len(alt) : \E j \in i..Len(alt) :
        /\ \A k \in 1..(i - 1) : alt[k] \notin Digits
        /\ \A k \in i..j : alt[k] \in Digits
        /\ (j = Len(alt) \/ alt[j + 1] \notin Digits)
        /\ M = DecVal(SubSeq(alt, i, j))

AlternativeSatisfiedBy(target, alt) ==
    \E M \in 0..99 :
        /\ FirstDigitRunIs(alt, M)
        /\ \/ Includes(alt, <<">", "=">>) /\ target >= M
           \/ /\ ~Includes(alt, <<">", "=">>)
              /\ (Includes(alt, <<"^">>) \/ Includes(alt, <<"~">>))
              /\ target = M

\* C10: versionSatisfiesPeerDep(target, constraint) is true iff some trimmed
\* '||' alternative has a first digit run M with ('>=' present and target >= M)
\* or ('>=' absent, '^' or '~' present and target = M); '^17.0.0 || ^18.0.0' is
\* satisfied by 18 and not by 16.
PeerDepEvaluation ==
    ret # <<>> =>
        /\ ret[1] <=> \E alt \in PeerAlternatives(call.constraint) :
                          AlternativeSatisfiedBy(call.targetMajor, alt)
        /\ (call.constraint = peer_17_or_18 /\ call.targetMajor = 18) => ret[1]
        /\ (call.constraint = peer_17_or_18 /\ call.targetMajor = 16) => ~ret[1]

\* '^17.0.0 || ^18.0.0' was evaluated for target 18 and found satisfied
PeerDepWitness ==
    /\ ret = Some(TRUE)
    /\ call.constraint = peer_17_or_18
    /\ call.targetMajor = 18

(***************************************************************************)
(* getBestVersion on bounded registry documents                            *)
(***************************************************************************)
\* versionData without peerDependencies, with peerDependencies that do not name
\* '@angular/core', and with a constraint on '@angular/core'
NoPeerDependencies == Null
NoAngularPeer == Some([angularCore |-> Null])
AngularPeer(constraint) == Some([angularCore |-> Some(constraint)])

VersionEntry(v, peer) == [version |-> v, peerDependencies |-> peer]

\* the entries registry documents are cut from, in Object.keys order
VersionEntryPool ==
    << VersionEntry(v16_2_0, NoPeerDependencies),
       VersionEntry(v17_0_0, AngularPeer(peer_caret17)),
       VersionEntry(v17_1_0, AngularPeer(peer_17_or_18)),
       VersionEntry(v18_0_0_next_0, AngularPeer(peer_ge16)),
       VersionEntry(v17_1_0_rc_1, NoAngularPeer),
       VersionEntry(v18_0_0, AngularPeer(peer_caret18)),
       VersionEntry(v17_2_0, AngularPeer(emptyString)),
       VersionEntry(v17_1_0_next, AngularPeer(peer_bare17)) >>

MaxVersions == 4

\* the subsequences of s of at most n elements
RECURSIVE SubsequencesUpTo(_, _)
SubsequencesUpTo(s, n) ==
    IF s = <<>> \/ n = 0 THEN {<<>>}
    ELSE SubsequencesUpTo(Tail(s), n)
         \cup {<<s[1]>> \o t : t \in SubsequencesUpTo(Tail(s), n - 1)}

\* registry documents: one to MaxVersions versions, dist-tags.latest one of them
PackageInfos ==
    UNION { { [versions |-> vs, latest |-> Some(vs[i].version)] : i \in 1..Len(vs) }
            : vs \in SubsequencesUpTo(VersionEntryPool, MaxVersions) \ {<<>>} }

\* what getPackageInfo emits: a document, or null after catchError
FetchedValues == {Some(info) : info \in PackageInfos} \cup {Null}

ResolveNames == {pkg_angular_core, pkg_angular_material, pkg_rxjs}
ResolveTargets == {<<"1", "6">>, target17, <<"1", "8">>}
ResolveCurrents ==
    {dep_caret_16_2_0, dep_caret_17_2_0, dep_tilde_18_0_0, v17_0_0_next_0,
     emptyString, dep_caret_19_0_0}

InitResolve ==
    /\ AppInit
    /\ call \in [packageName : ResolveNames, targetAngularVersion : ResolveTargets,
                 currentVersion : ResolveCurrents, fetched : FetchedValues]
    /\ ret = <<>>

CallGetBestVersion ==
    /\ ret = <<>>
    /\ ret' = Some(getBestVersion(call.packageName, call.targetAngularVersion,
                                  call.currentVersion, call.fetched))
    /\ UNCHANGED <<call, appVars>>

NextResolve == CallGetBestVersion

SpecResolve == InitResolve /\ [][NextResolve]_vars

\* the call returned a version for a present registry document
Resolved == ret # <<>> /\ call.fetched # Null
ResolvedVersion == ret[1][1]
ResolveCurrent == cleanVersion(call.currentVersion)
ResolveInfo == call.fetched[1]
ResolveVersionSet == {ResolveInfo.versions[i].version : i \in 1..Len(ResolveInfo.versions)}
ResolveTargetMajor == ParseInt(call.targetAngularVersion)

\* C1: whichever resolver a dependency with registry metadata is routed to, the
\* returned version does not order below the cleaned current version, and it
\* compares equal to current when the registry holds no version >= current.
NoDowngradeLaw ==
    Resolved =>
        /\ Registry_compareVersions(ResolvedVersion, ResolveCurrent) >= 0
        /\ (\A v \in ResolveVersionSet : Registry_compareVersions(v, ResolveCurrent) < 0)
               => Registry_compareVersions(ResolvedVersion, ResolveCurrent) = 0

\* the major of a version: the integer its first dot-separated component starts with
MajorOf(v) == ParseInt(Split(v, <<".">>)[1])

\* r is a highest element of the set S in the registry service's order
IsHighestOf(r, S) == r \in S /\ \A c \in S : Registry_compareVersions(r, c) >= 0

TargetMajorVersions == {v \in ResolveVersionSet : StrictEq(MajorOf(v), ResolveTargetMajor)}

StableTargetMajorVersions == {v \in TargetMajorVersions : ~isPreReleaseVersion(v)}

\* C8: for a framework-core package the result is a highest version of the
\* target major (among the stable ones when current is stable and one exists);
\* with no version of the target major it is current when current major >
\* target major, and '<target>.0.0' otherwise.  [16.2.0, 17.0.0, 17.1.0,
\* 18.0.0-next.0], target 17, current 16.2.0 gives 17.1.0.
FrameworkResolutionPolicy ==
    (Resolved /\ isAngularPackage(call.packageName)) =>
        /\ IF TargetMajorVersions # {}
           THEN IF ~isPreReleaseVersion(ResolveCurrent) /\ StableTargetMajorVersions # {}
                THEN IsHighestOf(ResolvedVersion, StableTargetMajorVersions)
                ELSE IsHighestOf(ResolvedVersion, TargetMajorVersions)
           ELSE IF NumGt(MajorOf(ResolveCurrent), ResolveTargetMajor)
                THEN ResolvedVersion = ResolveCurrent
                ELSE ResolvedVersion = call.targetAngularVersion \o <<".", "0", ".", "0">>
        /\ ( /\ VersionKeys(ResolveInfo) = <<v16_2_0, v17_0_0, v17_1_0, v18_0_0_next_0>>
             /\ call.targetAngularVersion = target17
             /\ ResolveCurrent = v16_2_0 ) => ResolvedVersion = v17_1_0

\* the framework resolver answered 17.1.0 for the versions of the example
FrameworkResolutionWitness ==
    /\ Resolved
    /\ call.packageName = pkg_angular_core
    /\ VersionKeys(ResolveInfo) = <<v16_2_0, v17_0_0, v17_1_0, v18_0_0_next_0>>
    /\ call.targetAngularVersion = target17
    /\ call.currentVersion = dep_caret_16_2_0
    /\ ResolvedVersion = v17_1_0

\* the versions that are not excluded as pre-release and have a compatible peer;
\* DeclaresNoPeer(e) says when entry e counts as declaring no '@angular/core' peer
Candidates(DeclaresNoPeer(_)) ==
    { ResolveInfo.versions[i].version : i \in
        { k \in 1..Len(ResolveInfo.versions) :
            LET e == ResolveInfo.versions[k]
            IN  /\ isPreReleaseVersion(e.version) => isPreReleaseVersion(ResolveCurrent)
                /\ \/ DeclaresNoPeer(e)
                   \/ /\ e.peerDependencies # Null
                      /\ e.peerDependencies[1].angularCore # Null
                      /\ \E alt \in PeerAlternatives(e.peerDependencies[1].angularCore[1]) :
                            \E t \in 0..99 : /\ ResolveTargetMajor = Num(t)
                                             /\ AlternativeSatisfiedBy(t, alt) } }

DeclaresNoAngularPeer(e) ==
    e.peerDependencies = Null \/ e.peerDependencies[1].angularCore = Null

DeclaresNoOrEmptyAngularPeer(e) ==
    e.peerDependencies = Null \/ Falsy(e.peerDependencies[1].angularCore)

StableVersions == {v \in ResolveVersionSet : ~isPreReleaseVersion(v)}

LatestTag == ResolveInfo.latest[1]

\* r is the fallback version f unless f orders below current, then it is current
GuardedFallback(r, f) ==
    IF Registry_compareVersions(f, ResolveCurrent) < 0
    THEN r = ResolveCurrent ELSE r = f

\* the ecosystem policy over a candidate set; replaceAlways says whether a
\* pre-release latest is replaced although no stable version exists
EcosystemPolicy(cands, replaceAlways) ==
    IF \E c \in cands : Registry_compareVersions(c, ResolveCurrent) >= 0
    THEN IsHighestOf(ResolvedVersion, cands)
    ELSE IF isPreReleaseVersion(LatestTag) /\ ~isPreReleaseVersion(ResolveCurrent)
              /\ (replaceAlways \/ StableVersions # {})
         THEN \E f \in StableVersions :
                 IsHighestOf(f, StableVersions) /\ GuardedFallback(ResolvedVersion, f)
         ELSE GuardedFallback(ResolvedVersion, LatestTag)

\* C9 as stated: candidates declare no '@angular/core' peer or a satisfied one;
\* a highest candidate when one is >= current; otherwise dist-tag latest, replaced
\* by the highest stable version when latest is pre-release and current is
\* stable; current when that fallback orders below current.
EcosystemResolutionAsStated ==
    (Resolved /\ ~isAngularPackage(call.packageName)) =>
        EcosystemPolicy(Candidates(DeclaresNoAngularPeer), TRUE)

\* C9 amended: an empty '@angular/core' peer constraint counts as no peer
\* dependency, and a pre-release latest is replaced by the highest stable
\* version only when the registry lists a stable version; with none, the
\* pre-release latest is the fallback.
EcosystemResolutionPolicy ==
    (Resolved /\ ~isAngularPackage(call.packageName)) =>
        EcosystemPolicy(Candidates(DeclaresNoOrEmptyAngularPeer), FALSE)

\* the ecosystem resolver fell back to a pre-release latest for a stable current
\* because the registry lists no stable version
EcosystemResolutionWitness ==
    /\ Resolved
    /\ call.packageName = pkg_rxjs
    /\ ~isPreReleaseVersion(ResolveCurrent)
    /\ StableVersions = {}
    /\ isPreReleaseVersion(LatestTag)
    /\ ResolvedVersion = LatestTag

\* C11: when the cleaned current version is stable, the resolved version is a
\* pre-release only if no stable alternative exists: for a framework-core
\* package, versions of the target major exist and none of them is stable; for
\* an ecosystem package, the registry lists no stable version at all.
StabilityPreference ==
    (Resolved /\ ~isPreReleaseVersion(ResolveCurrent)
              /\ isPreReleaseVersion(ResolvedVersion)) =>
        IF isAngularPackage(call.packageName)
        THEN TargetMajorVersions # {} /\ StableTargetMajorVersions = {}
        ELSE StableVersions = {}

\* the framework resolver answered a pre-release for a stable current because
\* the target major has pre-release versions only, next to a stable other major
StabilityPreferenceWitness ==
    /\ Resolved
    /\ isAngularPackage(call.packageName)
    /\ ~isPreReleaseVersion(ResolveCurrent)
    /\ isPreReleaseVersion(ResolvedVersion)
    /\ StableVersions # {}
    /\ StableTargetMajorVersions = {}

(***************************************************************************)
(* DependencyAnalyzerService                                               *)
(***************************************************************************)
\* A dependency map is the sequence of its [name, version] pairs in key order.
DepNames(deps) == [i \in 1..Len(deps) |-> deps[i].name]

\* deps[name]: Null when the key is missing
Lookup(deps, name) ==
    IF \E i \in 1..Len(deps) : deps[i].name = name
    THEN Some(deps[CHOOSE i \in 1..Len(deps) : deps[i].name = name].version)
    ELSE Null

\* assignment obj[name] = version: in place for a present key, appended otherwise
SetKey(deps, name, version) ==
    IF \E i \in 1..Len(deps) : deps[i].name = name
    THEN [i \in 1..Len(deps) |-> IF deps[i].name = name
                                 THEN [name |-> name, version |-> version] ELSE deps[i]]
    ELSE Append(deps, [name |-> name, version |-> version])

RECURSIVE SpreadInto(_, _)
SpreadInto(target, source) ==
    IF source = <<>> THEN target
    ELSE SpreadInto(SetKey(target, source[1].name, source[1].version), Tail(source))

\* ...x for an optional map: spreading undefined adds nothing
Spread(target, optionalMap) ==
    IF optionalMap = Null THEN target ELSE SpreadInto(target, optionalMap[1])

\* a merge that spreads devDependencies first
AllDeps_devFirst(packageJson) ==
    Spread(Spread(<<>>, packageJson.devDependencies), packageJson.dependencies)

\* { ...packageJson.dependencies, ...packageJson.devDependencies }
AllDeps(packageJson) ==
    Spread(Spread(<<>>, packageJson.dependencies), packageJson.devDependencies)

\* optional?.[name] used as a condition: a missing map, a missing key and ''
\* are falsy
HasTruthy(optionalMap, name) ==
    /\ optionalMap # Null
    /\ ~Falsy(Lookup(optionalMap[1], name))

\* DependencyAnalyzerService.isAngularEcosystemPackage
isAngularEcosystemPackage(name) ==
    \/ StartsWith(name, <<"n", "g", "-">>)
    \/ StartsWith(name, <<"n", "g", "x", "-">>)
    \/ StartsWith(name, <<"@", "n", "g", "-">>)
    \/ Includes(name, <<"@", "a", "n", "g", "u", "l", "a", "r", "/", "m", "a", "t", "e", "r", "i", "a", "l">>)
    \/ Includes(name, <<"@", "a", "n", "g", "u", "l", "a", "r", "/", "c", "d", "k">>)
    \/ Includes(name, <<"@", "n", "g", "r", "x", "/">>)

\* the notes of analyzeDependency: a fixed text, with the target where templated
Note(text, version) == [text |-> text, version |-> version]

NotesFor(name, comparison, targetAngularVersion) ==
    IF comparison < 0
    THEN IF isAngularPackage(name)
         THEN Note("Upgrade to match Angular", targetAngularVersion)
         ELSE IF isAngularEcosystemPackage(name)
         THEN Note("Update available - verify compatibility with Angular",
                   targetAngularVersion)
         ELSE Note("Update available", <<>>)
    ELSE IF comparison = 0
    THEN IF isAngularPackage(name)
         THEN Note("Aligned with Angular", targetAngularVersion)
         ELSE Note("Up to date", <<>>)
    ELSE Note("Current version is newer", <<>>)

\* a map callback that recommends '' when the registry gave nothing
analyzeDependency_noFallback(name, currentVersion, targetAngularVersion, bestVersion) ==
    LET clean == cleanVersion(currentVersion)
        recommendedVersion == IF bestVersion = Null THEN <<>> ELSE bestVersion[1]
        comparison == Analyzer_compareVersions(clean, recommendedVersion)
    IN  [name |-> name,
         currentVersion |-> clean,
         latestVersion |-> recommendedVersion,
         recommendedVersion |-> recommendedVersion,
         isAngularPackage |-> isAngularPackage(name),
         needsUpdate |-> comparison <= 0,
         risk |-> IF isAngularEcosystemPackage(name) THEN "medium" ELSE "low",
         notes |-> NotesFor(name, comparison, targetAngularVersion)]

\* the map callback of DependencyAnalyzerService.analyzeDependency, applied to
\* what getBestVersion emitted
analyzeDependency(name, currentVersion, targetAngularVersion, bestVersion) ==
    LET clean == cleanVersion(currentVersion)
        recommendedVersion == IF Falsy(bestVersion) THEN clean ELSE bestVersion[1]
        comparison == Analyzer_compareVersions(clean, recommendedVersion)
    IN  [name |-> name,
         currentVersion |-> clean,
         latestVersion |-> recommendedVersion,
         recommendedVersion |-> recommendedVersion,
         isAngularPackage |-> isAngularPackage(name),
         needsUpdate |-> comparison < 0,
         risk |-> IF isAngularEcosystemPackage(name) THEN "medium" ELSE "low",
         notes |-> NotesFor(name, comparison, targetAngularVersion)]

\* analyses.filter(P).length
CountWhere(P(_), analyses) == Len(FilterSeq(P, analyses))

\* the rewritten group of buildResult: '^' + recommendedVersion for every analysis
\* whose name has a truthy value in the group of the original
RECURSIVE UpdatedGroup(_, _)
UpdatedGroup(originalGroup, analyses) ==
    IF analyses = <<>> THEN <<>>
    ELSE LET analysis == analyses[1]
             rest == UpdatedGroup(originalGroup, Tail(analyses))
         IN  IF HasTruthy(originalGroup, analysis.name)
             THEN SpreadInto(<<[name |-> analysis.name,
                                version |-> <<"^">> \o analysis.recommendedVersion]>>, rest)
             ELSE rest

NeedsUpdate(a) == a.needsUpdate
IsLowRisk(a) == a.risk = "low"
IsMediumRisk(a) == a.risk = "medium"
IsHighRisk(a) == a.risk = "high"

\* a summary that counts the needs-update entries as the total
Summary_totalAsNeedsUpdate(analyses) ==
    [total |-> Len(analyses),
     needsUpdate |-> Len(analyses),
     lowRisk |-> CountWhere(IsLowRisk, analyses),
     mediumRisk |-> CountWhere(IsMediumRisk, analyses),
     highRisk |-> CountWhere(IsHighRisk, analyses)]

\* the summary of buildResult
Summary(analyses) ==
    [total |-> Len(analyses),
     needsUpdate |-> CountWhere(NeedsUpdate, analyses),
     lowRisk |-> CountWhere(IsLowRisk, analyses),
     mediumRisk |-> CountWhere(IsMediumRisk, analyses),
     highRisk |-> CountWhere(IsHighRisk, analyses)]

\* DependencyAnalyzerService.buildResult
buildResult(original, analyses) ==
    LET updatedDeps == UpdatedGroup(original.dependencies, analyses)
        updatedDevDeps == UpdatedGroup(original.devDependencies, analyses)
        updated == [original EXCEPT
                      !.dependencies = IF Len(updatedDeps) > 0
                                       THEN Some(updatedDeps) ELSE original.dependencies,
                      !.devDependencies = IF Len(updatedDevDeps) > 0
                                          THEN Some(updatedDevDeps)
                                          ELSE original.devDependencies]
    IN  [original |-> original, updated |-> updated, analysis |-> analyses,
         summary |-> Summary(analyses)]

\* DependencyAnalyzerService.createEmptyResult
createEmptyResult(packageJson) ==
    [original |-> packageJson, updated |-> packageJson, analysis |-> <<>>,
     summary |-> [total |-> 0, needsUpdate |-> 0, lowRisk |-> 0, mediumRisk |-> 0,
                  highRisk |-> 0]]

(***************************************************************************)
(* analyzeDependency on bounded registry documents                         *)
(***************************************************************************)
InitAnalyzeDependency ==
    /\ AppInit
    /\ call \in [packageName : ResolveNames, targetAngularVersion : ResolveTargets,
                 currentVersion : ResolveCurrents, fetched : FetchedValues]
    /\ ret = <<>>

\* analyzeDependency: getBestVersion piped through the map callback
CallAnalyzeDependency ==
    /\ ret = <<>>
    /\ ret' = Some(analyzeDependency(call.packageName, call.currentVersion,
                                     call.targetAngularVersion,
                                     getBestVersion(call.packageName,
                                                    call.targetAngularVersion,
                                                    call.currentVersion, call.fetched)))
    /\ UNCHANGED <<call, appVars>>

NextAnalyzeDependency == CallAnalyzeDependency

SpecAnalyzeDependency == InitAnalyzeDependency /\ [][NextAnalyzeDependency]_vars

\* C12: for every dependency name, declared constraint, target version and
\* registry metadata (present or absent), the analyzer's comparison of cleaned
\* current against recommendedVersion is <= 0, so no analysis entry carries the
\* note 'Current version is newer'.
NewerNoteUnreachable ==
    ret # <<>> =>
        /\ Analyzer_compareVersions(ret[1].currentVersion, ret[1].recommendedVersion) <= 0
        /\ ret[1].notes # Note("Current version is newer", <<>>)

(***************************************************************************)
(* Manifests, editor texts and the registry snapshot of the App runs       *)
(***************************************************************************)
Dep(name, version) == [name |-> name, version |-> version]

Manifest(name, version, dependencies, devDependencies) ==
    [type |-> "object", name |-> name, version |-> version,
     dependencies |-> dependencies, devDependencies |-> devDependencies]

appName == <<"a", "p", "p">>
target18 == <<"1", "8">>

\* two groups, no shared name
manifestSplit ==
    Manifest(Some(appName), Some(v1_0_0),
             Some(<<Dep(pkg_angular_core, dep_caret_16_2_0)>>),
             Some(<<Dep(pkg_ngx_toastr, dep_caret_17_2_0)>>))

\* rxjs in both groups, devDependencies listing '@angular/core' first
manifestShared ==
    Manifest(Some(appName), Null,
             Some(<<Dep(pkg_rxjs, dep_caret_1_0_0)>>),
             Some(<<Dep(pkg_angular_core, dep_tilde_18_0_0), Dep(pkg_rxjs, dep_caret_17_2_0)>>))

\* no devDependencies, and a dependency declared with the empty range ''
manifestEmptyRange ==
    Manifest(Some(appName), Some(v1_0_0),
             Some(<<Dep(pkg_rxjs, emptyString), Dep(pkg_angular_material, dep_caret_16_2_0)>>),
             Null)

\* a name and nothing else
manifestNameOnly == Manifest(Some(appName), Some(v1_0_0), Null, Null)

\* an empty name and an empty dependencies object
manifestEmptyDeps == Manifest(Some(emptyString), Null, Some(<<>>), Null)

\* none of name, dependencies, devDependencies
manifestOther == Manifest(Null, Some(v1_0_0), Null, Null)

JsonText(value) == [kind |-> "json", value |-> value]

\* what the editor can hold: nothing, text that is not JSON, the JSON text
\* 'null', and the JSON text of a manifest object
InputTexts ==
    { BlankText, [kind |-> "garbage"], JsonText([type |-> "null"]),
      JsonText(manifestSplit), JsonText(manifestShared), JsonText(manifestEmptyRange),
      JsonText(manifestNameOnly), JsonText(manifestEmptyDeps), JsonText(manifestOther) }

SelectableVersions == {target17, target18}

\* the registry document of each package of the manifests
RegistryDocument(name) ==
    CASE name = pkg_angular_core ->
            [versions |-> << VersionEntry(v16_2_0, NoPeerDependencies),
                             VersionEntry(v17_0_0, NoPeerDependencies),
                             VersionEntry(v17_1_0, NoPeerDependencies),
                             VersionEntry(v18_0_0_next_0, NoPeerDependencies) >>,
             latest |-> Some(v17_1_0)]
      [] name = pkg_rxjs ->
            [versions |-> << VersionEntry(v1_0_0, NoPeerDependencies),
                             VersionEntry(v17_0_1_next, NoAngularPeer),
                             VersionEntry(v17_2_0, NoPeerDependencies) >>,
             latest |-> Some(v17_2_0)]
      [] name = pkg_ngx_toastr ->
            [versions |-> << VersionEntry(v17_0_0, AngularPeer(peer_caret17)),
                             VersionEntry(v18_0_0, AngularPeer(peer_caret18)) >>,
             latest |-> Some(v18_0_0)]
      [] name = pkg_angular_material ->
            [versions |-> << VersionEntry(v16_2_0, AngularPeer(peer_ge16)),
                             VersionEntry(v17_1_0, AngularPeer(peer_17_or_18)),
                             VersionEntry(v18_0_0_next_0, AngularPeer(peer_caret18)) >>,
             latest |-> Some(v17_1_0)]

MaxInflight == 1
MaxAnalyses == 1

(***************************************************************************)
(* App component                                                           *)
(***************************************************************************)
\* JSON.parse throws on text that is not JSON
ParseThrows(text) == text.kind = "garbage"

\* JSON.parse(text) for text it accepts
JsonParse(text) == text.value

\* JSON.stringify(value, null, 2): the text of the object; a key whose value is
\* undefined is left out, which a Null field already stands for
JsonStringify(value) == [kind |-> "json", value |-> value]

\* coreVersion.match(/(\d+)\./): the first run of digits that a dot follows
RECURSIVE FirstDigitRunBeforeDot(_)
FirstDigitRunBeforeDot(s) ==
    IF s = <<>> THEN Null
    ELSE LET n == DigitRunLen(s)
         IN  IF n > 0 /\ n < Len(s) /\ s[n + 1] = "."
             THEN Some(SubSeq(s, 1, n))
             ELSE FirstDigitRunBeforeDot(Tail(s))

\* App.getCurrentAngularVersion: NaN stands for the null it returns
getCurrentAngularVersion(packageJson) ==
    LET coreVersion == Lookup(AllDeps(packageJson), pkg_angular_core)
        match == IF Falsy(coreVersion) THEN Null ELSE FirstDigitRunBeforeDot(coreVersion[1])
    IN  IF match = Null THEN NaN ELSE ParseInt(match[1])

\* the guard of lines 161-164: the project is ahead of the selected target
AheadOfTarget(packageJson, version) ==
    LET currentAngularVersion == getCurrentAngularVersion(packageJson)
    IN  /\ currentAngularVersion # NaN
        /\ currentAngularVersion # Num(0)
        /\ NumGt(currentAngularVersion, ParseInt(version))

\* a guard without the check of lines 152-155
AnalyzeRejects_noFieldCheck(text, version) ==
    IF text.kind = "blank" THEN TRUE
    ELSE IF ParseThrows(text) THEN TRUE
    ELSE IF JsonParse(text).type = "null" THEN TRUE
    ELSE AheadOfTarget(JsonParse(text), version)

\* onAnalyze returns before 'Start analyzing' (lines 142-164, and the catch):
\* blank text, text JSON.parse throws on, null (reading .name throws), none of
\* the three fields truthy, or a project ahead of the target
AnalyzeRejects(text, version) ==
    IF text.kind = "blank" THEN TRUE
    ELSE IF ParseThrows(text) THEN TRUE
    ELSE IF JsonParse(text).type = "null" THEN TRUE
    ELSE LET packageJson == JsonParse(text)
         IN  IF /\ Falsy(packageJson.name)
                /\ packageJson.dependencies = Null
                /\ packageJson.devDependencies = Null
             THEN TRUE
             ELSE AheadOfTarget(packageJson, version)

\* the subscription forkJoin(requests) opens: one unsettled slot per dependency
NewBatch(packageJson, targetAngularVersion) ==
    LET allDeps == AllDeps(packageJson)
    IN  [packageJson |-> packageJson,
         targetAngularVersion |-> targetAngularVersion,
         allDeps |-> allDeps,
         slots |-> [i \in 1..Len(allDeps) |-> Null],
         failed |-> [i \in 1..Len(allDeps) |-> FALSE],
         outOfOrder |-> FALSE]

\* the next callback of onAnalyze (lines 170-174)
Deliver(result) ==
    /\ analysisResult' = Some(result)
    /\ outputJson' = JsonStringify(result.updated)
    /\ isAnalyzing' = FALSE
    /\ emitted' = emitted + 1

onInputChange(content) ==
    /\ inputJson' = content
    /\ lastOp' = "other"
    /\ UNCHANGED <<outputJson, selectedVersion, isAnalyzing, analysisResult, inflight,
                   analyzeCalls, emitted, delivery, call, ret>>

onClear ==
    /\ inputJson' = BlankText
    /\ lastOp' = "other"
    /\ UNCHANGED <<outputJson, selectedVersion, isAnalyzing, analysisResult, inflight,
                   analyzeCalls, emitted, delivery, call, ret>>

onVersionChange(value) ==
    /\ selectedVersion' = value
    /\ lastOp' = "other"
    /\ UNCHANGED <<inputJson, outputJson, isAnalyzing, analysisResult, inflight,
                   analyzeCalls, emitted, delivery, call, ret>>

onReset ==
    /\ inputJson' = BlankText
    /\ outputJson' = BlankText
    /\ selectedVersion' = target17
    /\ analysisResult' = Null
    /\ isAnalyzing' = FALSE
    /\ delivery' = Null
    /\ lastOp' = "other"
    /\ UNCHANGED <<inflight, analyzeCalls, emitted, call, ret>>

\* onAnalyze on an input it rejects: an alert and nothing else
onAnalyzeRejected ==
    /\ AnalyzeRejects(inputJson, selectedVersion)
    /\ lastOp' = "onAnalyze"
    /\ UNCHANGED <<inputJson, outputJson, selectedVersion, isAnalyzing, analysisResult,
                   inflight, analyzeCalls, emitted, delivery, call, ret>>

\* onAnalyze on a manifest without dependencies: analyze returns of(empty result),
\* which the subscription delivers before onAnalyze returns
onAnalyzeEmpty ==
    /\ ~AnalyzeRejects(inputJson, selectedVersion)
    /\ analyzeCalls < MaxAnalyses
    /\ LET packageJson == JsonParse(inputJson)
       IN  /\ Len(AllDeps(packageJson)) = 0
           /\ Deliver(createEmptyResult(packageJson))
           /\ delivery' = Some([failed |-> <<>>, outOfOrder |-> FALSE,
                                targetAngularVersion |-> selectedVersion])
    /\ analyzeCalls' = analyzeCalls + 1
    /\ lastOp' = "onAnalyze"
    /\ UNCHANGED <<inputJson, selectedVersion, inflight, call, ret>>

\* onAnalyze on a manifest with dependencies: isAnalyzing is set and forkJoin
\* subscribes to one request per dependency
onAnalyzeStart ==
    /\ ~AnalyzeRejects(inputJson, selectedVersion)
    /\ analyzeCalls < MaxAnalyses
    /\ Len(inflight) < MaxInflight
    /\ LET packageJson == JsonParse(inputJson)
       IN  /\ Len(AllDeps(packageJson)) > 0
           /\ inflight' = Append(inflight, NewBatch(packageJson, selectedVersion))
    /\ isAnalyzing' = TRUE
    /\ analyzeCalls' = analyzeCalls + 1
    /\ lastOp' = "onAnalyze"
    /\ UNCHANGED <<inputJson, outputJson, selectedVersion, analysisResult, emitted,
                   delivery, call, ret>>

onAnalyze == onAnalyzeRejected \/ onAnalyzeEmpty \/ onAnalyzeStart

\* the requests analyze can issue for the manifests of InputTexts, each with
\* either outcome of its HTTP request
FetchRequests ==
    UNION { { [name |-> dep.name, declared |-> dep.version, target |-> t, failed |-> f]
                : t \in SelectableVersions, f \in BOOLEAN }
            : dep \in UNION { {AllDeps(text.value)[k] : k \in 1..Len(AllDeps(text.value))}
                              : text \in {x \in InputTexts :
                                            IF x.kind = "json" THEN x.value.type = "object"
                                            ELSE FALSE} } }

\* what one request of analyzeDependency emits: getPackageInfo emits the document,
\* or null after an HTTP error (catchError); getBestVersion maps it to a version
\* or null; the map callback of analyzeDependency builds the entry.  Tabulated
\* over FetchRequests, so that each request is resolved once.
SettledEntry ==
    [q \in FetchRequests |->
        LET info == IF q.failed THEN Null ELSE Some(RegistryDocument(q.name))
            best == getBestVersion(q.name, q.target, q.declared, info)
        IN  analyzeDependency(q.name, q.declared, q.target, best)]

RemoveAt(s, k) == SubSeq(s, 1, k - 1) \o SubSeq(s, k + 1, Len(s))

\* The request of dependency i of subscription b settles, with a document or
\* failed, and forkJoin keeps the entry it emits. With the last request settled
\* forkJoin emits the entries in request order and buildResult's result is
\* delivered to the next callback of onAnalyze.
FetchSettles(b, i, failed) ==
    /\ b \in 1..Len(inflight)
    /\ i \in 1..Len(inflight[b].slots)
    /\ inflight[b].slots[i] = Null
    /\ LET batch == inflight[b]
           name == batch.allDeps[i].name
           declared == batch.allDeps[i].version
           entry == SettledEntry[[name |-> name, declared |-> declared,
                                  target |-> batch.targetAngularVersion,
                                  failed |-> failed]]
           settled == [batch EXCEPT !.slots[i] = Some(entry),
                                    !.failed[i] = failed,
                                    !.outOfOrder =
                                        @ \/ \E k \in 1..(i - 1) : batch.slots[k] = Null]
           analyses == [k \in 1..Len(settled.slots) |-> settled.slots[k][1]]
       IN  IF \A k \in 1..Len(settled.slots) : settled.slots[k] # Null
           THEN /\ Deliver(buildResult(batch.packageJson, analyses))
                /\ delivery' = Some([failed |-> settled.failed,
                                     outOfOrder |-> settled.outOfOrder,
                                     targetAngularVersion |-> batch.targetAngularVersion])
                /\ inflight' = RemoveAt(inflight, b)
           ELSE /\ inflight' = [inflight EXCEPT ![b] = settled]
                /\ UNCHANGED <<analysisResult, outputJson, isAnalyzing, emitted, delivery>>
    /\ lastOp' = "other"
    /\ UNCHANGED <<inputJson, selectedVersion, analyzeCalls, call, ret>>

Init ==
    /\ AppInit
    /\ call = <<>>
    /\ ret = <<>>

Next ==
    \/ \E content \in InputTexts : onInputChange(content)
    \/ onClear
    \/ \E value \in SelectableVersions : onVersionChange(value)
    \/ onReset
    \/ onAnalyze
    \/ \E b \in 1..Len(inflight) : \E i \in 1..Len(inflight[b].slots) :
          \E failed \in BOOLEAN : FetchSettles(b, i, failed)

Spec == Init /\ [][Next]_vars

(***************************************************************************)
(* Properties of the App runs                                              *)
(***************************************************************************)
HeldResult == analysisResult[1]

KeySet(optionalMap) ==
    IF optionalMap = Null THEN {}
    ELSE {optionalMap[1][i].name : i \in 1..Len(optionalMap[1])}

\* the constraint a name is resolved from: the devDependencies one when the name
\* is in both groups
DeclaredFor(manifest, name) ==
    IF name \in KeySet(manifest.devDependencies)
    THEN Lookup(manifest.devDependencies[1], name)[1]
    ELSE Lookup(manifest.dependencies[1], name)[1]

\* the iteration order of the merged map: the dependencies keys, then the
\* devDependencies keys that dependencies does not hold
IsNewDevKey(manifest, name) == name \notin KeySet(manifest.dependencies)

MergedOrder(manifest) ==
    LET deps == IF manifest.dependencies = Null THEN <<>>
                ELSE DepNames(manifest.dependencies[1])
        dev == IF manifest.devDependencies = Null THEN <<>>
               ELSE DepNames(manifest.devDependencies[1])
        NewKey(name) == IsNewDevKey(manifest, name)
    IN  deps \o FilterSeq(NewKey, dev)

\* C2: a failed lookup does not abort the batch: the delivered result has an
\* entry for every dependency; the entry of a failed lookup recommends the
\* cleaned current version with needsUpdate = false, and every other entry is
\* the one the dependency gets when no lookup fails.
FailedLookupFallsBack ==
    delivery # Null =>
        LET manifest == HeldResult.original
            analysis == HeldResult.analysis
            target == delivery[1].targetAngularVersion
            order == MergedOrder(manifest)
        IN  /\ Len(analysis) = Len(order)
            /\ Len(delivery[1].failed) = Len(order)
            /\ \A i \in 1..Len(order) :
                  LET declared == DeclaredFor(manifest, order[i])
                  IN  IF delivery[1].failed[i]
                      THEN /\ analysis[i].name = order[i]
                           /\ analysis[i].recommendedVersion = cleanVersion(declared)
                           /\ analysis[i].currentVersion = cleanVersion(declared)
                           /\ analysis[i].needsUpdate = FALSE
                      ELSE analysis[i] =
                             analyzeDependency(order[i], declared, target,
                                 getBestVersion(order[i], target, declared,
                                                Some(RegistryDocument(order[i]))))

\* a result was delivered although the first lookup failed, and the second
\* dependency still got its update
FailedLookupWitness ==
    /\ delivery # Null
    /\ delivery[1].failed = <<TRUE, FALSE>>
    /\ HeldResult.analysis[1].needsUpdate = FALSE
    /\ HeldResult.analysis[2].needsUpdate = TRUE

\* C3: every analyze call delivers exactly one result, after all its fetches
\* settled and not before, and the entries are in the iteration order of the
\* merged dependencies+devDependencies map, a shared name once and resolved
\* from its devDependencies constraint, whatever order the fetches settle in.
FanOutFanIn ==
    /\ emitted + Len(inflight) = analyzeCalls
    /\ \A b \in 1..Len(inflight) : \E i \in 1..Len(inflight[b].slots) :
          inflight[b].slots[i] = Null
    /\ analysisResult # Null =>
          LET order == MergedOrder(HeldResult.original)
          IN  /\ DepNames(HeldResult.analysis) = order
              /\ \A i \in 1..Len(order) :
                    HeldResult.analysis[i].currentVersion =
                        cleanVersion(DeclaredFor(HeldResult.original, order[i]))

\* fetches that settled out of order delivered the entries of a manifest with
\* rxjs in both groups in merged order, rxjs resolved from devDependencies
FanOutFanInWitness ==
    /\ delivery # Null
    /\ delivery[1].outOfOrder
    /\ emitted = 1
    /\ HeldResult.original = manifestShared
    /\ DepNames(HeldResult.analysis) = <<pkg_rxjs, pkg_angular_core>>
    /\ HeldResult.analysis[1].currentVersion = v17_2_0

\* the group of the updated manifest rewrites exactly the names of the original
\* group, each to '^' + recommendedVersion of its entry
GroupRewritten(originalGroup, updatedGroup, analysis) ==
    /\ KeySet(updatedGroup) = KeySet(originalGroup)
    /\ (originalGroup = Null) <=> (updatedGroup = Null)
    /\ \A name \in KeySet(originalGroup) :
          \E i \in 1..Len(analysis) :
             /\ analysis[i].name = name
             /\ Lookup(updatedGroup[1], name) = Some(<<"^">> \o analysis[i].recommendedVersion)

\* C4: in the updated manifest each group holds exactly the names of the
\* original group, each with '^' + recommendedVersion of its entry, and every
\* other field equals its value in the original.
ManifestEmission ==
    analysisResult # Null =>
        /\ GroupRewritten(HeldResult.original.dependencies,
                          HeldResult.updated.dependencies, HeldResult.analysis)
        /\ GroupRewritten(HeldResult.original.devDependencies,
                          HeldResult.updated.devDependencies, HeldResult.analysis)
        /\ HeldResult.updated.name = HeldResult.original.name
        /\ HeldResult.updated.version = HeldResult.original.version
        /\ HeldResult.updated.type = HeldResult.original.type

\* C5: summary.total is the number of entries, summary.needsUpdate the number
\* of entries with needsUpdate, and the three risk counts count each entry in
\* exactly one bucket and add up to total.
SummaryConsistency ==
    analysisResult # Null =>
        LET analysis == HeldResult.analysis
            summary == HeldResult.summary
            Count(P(_)) == Cardinality({i \in 1..Len(analysis) : P(analysis[i])})
        IN  /\ summary.total = Len(analysis)
            /\ summary.needsUpdate = Count(NeedsUpdate)
            /\ summary.lowRisk = Count(IsLowRisk)
            /\ summary.mediumRisk = Count(IsMediumRisk)
            /\ summary.highRisk = Count(IsHighRisk)
            /\ \A i \in 1..Len(analysis) : analysis[i].risk \in {"low", "medium", "high"}
            /\ summary.lowRisk + summary.mediumRisk + summary.highRisk = summary.total

\* a result with a low-risk and a medium-risk entry, one of them needing an update
SummaryWitness ==
    /\ analysisResult # Null
    /\ HeldResult.summary.total = 2
    /\ HeldResult.summary.needsUpdate = 1
    /\ HeldResult.summary.lowRisk = 1
    /\ HeldResult.summary.mediumRisk = 1

\* the input is not parseable JSON
NotParseable(text) == text.kind # "json"

\* the parsed manifest lacks at least one of name, dependencies, devDependencies
LacksAnyField(text) ==
    IF NotParseable(text) THEN FALSE
    ELSE IF text.value.type = "null" THEN TRUE
    ELSE \/ Falsy(text.value.name)
         \/ text.value.dependencies = Null
         \/ text.value.devDependencies = Null

\* the parsed manifest has none of name, dependencies, devDependencies
LacksAllFields(text) ==
    IF NotParseable(text) THEN FALSE
    ELSE IF text.value.type = "null" THEN TRUE
    ELSE /\ Falsy(text.value.name)
         /\ text.value.dependencies = Null
         /\ text.value.devDependencies = Null

\* the step ran onAnalyze and started nothing
AnalyzeStartedNothing ==
    UNCHANGED <<analyzeCalls, inflight, emitted, isAnalyzing, analysisResult, outputJson>>

Discarded == analysisResult = Null /\ outputJson = BlankText /\ isAnalyzing = FALSE

\* C15: after onReset, analysisResult stays null, outputJson stays empty and
\* isAnalyzing stays false until the next onAnalyze, also when an analysis that
\* was started before the reset completes afterwards: no step other than
\* onAnalyze leaves the discarded state.
DiscardIsFinal == [][(Discarded /\ lastOp' # "onAnalyze") => Discarded']_vars

====
